---------------------------- MODULE Spec2Model ----------------------------
(***************************************************************************)
(* The ad-wall backend: four revisions of one REST service over a flat     *)
(* list of ads.                                                            *)
(*   "app"   src/ad-wall-backend/app.js  synchronous file I/O              *)
(*   "mem"   src/unnamed/part_000        process memory                    *)
(*   "sync"  src/unnamed/part_001        synchronous file I/O, file        *)
(*                                       created at start-up               *)
(*   "async" src/unnamed/part_002        asynchronous file I/O             *)
(*                                                                         *)
(* An ad is a record with the fields id (a string, modelled as a sequence  *)
(* of characters), clicked (a number) and videos (a list).  A request body *)
(* is a function from a subset of these field names to values of the       *)
(* field's type.  The order of an object's keys is not modelled.           *)
(***************************************************************************)
EXTENDS Integers, Sequences, FiniteSets, TLC

\* ------------------------------------------------------------- bounds
MaxRequests == 5   \* requests served one after the other
MaxAds == 2        \* POST is not issued once a list holds MaxAds ads
NumHandlers == 2   \* concurrently running handlers of the asynchronous revision

Revs == {"app", "mem", "sync", "async"}
FileRevs == {"app", "sync", "async"}

VARIABLES
  served,    \* the number of requests served so far
  clock,     \* the value Date.now() returns
  adsJson,   \* FileRevs -> the content of ads.json (adsPath)
  ads,       \* part_000's in-memory list `let ads`
  resp,      \* Revs -> the response to the last request
  hits,      \* Revs -> for each stored ad, the clicks acknowledged with 200 (history)
  gone,      \* the ids whose DELETE returned 200 since the last POST (history)
  failed,    \* Revs -> whether a read or a write of ads.json threw in the last request
  io,        \* "reliable": file I/O never fails; "faulty": a read or a write may throw
  pc,        \* asynchronous revision: handler -> "idle", "read", "write", "done"
  req,       \* asynchronous revision: handler -> its request
  loc,       \* asynchronous revision: handler -> the list it holds and the answer it will send
  hresp      \* asynchronous revision: handler -> its response

vars == <<served, clock, adsJson, ads, resp, hits, gone, failed, io, pc, req, loc, hresp>>

\* ------------------------------------------------------------- values
DigitChar == <<"0", "1", "2", "3", "4", "5", "6", "7", "8", "9">>

RECURSIVE NumToString(_)
\* Number.prototype.toString(): the decimal digits of a non-negative integer
NumToString(n) ==
  IF n < 10 THEN <<DigitChar[n + 1]>>
  ELSE NumToString(n \div 10) \o <<DigitChar[(n % 10) + 1]>>

NoBody == [f \in {} |-> 0]

\* The readings of Date.now(): a request sees the millisecond of the request
\* before it, or a later one.
Millis == {0, 1}

\* the ids a client sends: in the URL, or as the id field of a body
ParamIds == {NumToString(n) : n \in Millis}
BodyIds == {NumToString(0)}
BodyClicked == {1}
BodyVideos == {<<"v">>}

\* req.body: no field, one field, or the two fields clicked and videos
Bodies ==
  {NoBody}
    \cup {[id |-> x] : x \in BodyIds}
    \cup {c @@ v : c \in {NoBody} \cup {[clicked |-> x] : x \in BodyClicked},
                   v \in {NoBody} \cup {[videos |-> x] : x \in BodyVideos}}

\* a spread in which the first object's fields win
SpreadKeep(a, b) ==
  [f \in (DOMAIN a) \cup (DOMAIN b) |-> IF f \in DOMAIN a THEN a[f] ELSE b[f]]

\* { ...a, ...b }
Spread(a, b) ==
  [f \in (DOMAIN a) \cup (DOMAIN b) |-> IF f \in DOMAIN b THEN b[f] ELSE a[f]]

\* ads.findIndex(ad => ad.id === id): 0-based, -1 when there is none
FindIndex(a, id) ==
  IF \E i \in 1..Len(a) : a[i].id = id
  THEN (CHOOSE i \in 1..Len(a) :
          a[i].id = id /\ \A j \in 1..(i - 1) : a[j].id # id) - 1
  ELSE -1

\* ads.filter(ad => ad.id !== id)
FilterOut(a, id) == SelectSeq(a, LAMBDA ad : ad.id # id)

\* ads.unshift(newAd) in the place of ads.push(newAd)
PushFront(a, newAd) == <<newAd>> \o a

\* ads.push(newAd)
Push(a, newAd) == Append(a, newAd)

\* x || 0 on a number or a missing field
OrZero(ad) == IF "clicked" \in DOMAIN ad /\ ad.clicked # 0 THEN ad.clicked ELSE 0

\* ------------------------------------------------------------- responses
\* res.status(status).json({ success, data | message }), with the route that sent it
Response(op, status, kind, data) ==
  [op |-> op, status |-> status, success |-> status < 400, kind |-> kind, data |-> data]

NoResponse == [op |-> "none", status |-> 0, success |-> FALSE, kind |-> "none", data |-> <<>>]

\* res.status(404).json({ success: false, message: '广告不存在' })
NotFound(op) == Response(op, 404, "message", <<>>)

\* ------------------------------------------------------------- the ads file
\* The text of ads.json is what JSON.stringify wrote ("json", with the value
\* it holds), the empty text "" ("empty"), or text that is no JSON ("garbage").
JsonStringify(a) == [kind |-> "json", val |-> a]

EmptyText == [kind |-> "empty", val |-> <<>>]

GarbageText == [kind |-> "garbage", val |-> <<>>]

\* JSON.parse(text): [ok |-> FALSE] stands for the SyntaxError it throws
JsonParse(text) ==
  IF text.kind = "json" THEN [ok |-> TRUE, val |-> text.val]
  ELSE [ok |-> FALSE, val |-> <<>>]

NoFile == [exists |-> FALSE, text |-> EmptyText]

FileOf(text) == [exists |-> TRUE, text |-> text]

\* fs.ensureFile(adsPath): creates an empty file when there is none
EnsureFile(file) == IF file.exists THEN file ELSE FileOf(EmptyText)

\* data || '[]'
OrEmptyList(text) == IF text.kind = "empty" THEN JsonStringify(<<>>) ELSE text

\* getAds of app.js; readFails: fs.readFileSync throws
GetAdsApp(file, readFails) ==
  IF ~file.exists THEN <<>>
  ELSE IF readFails THEN <<>>
  ELSE LET parsed == JsonParse(file.text)
       IN  IF parsed.ok THEN parsed.val ELSE <<>>

\* getAds of part_001; a missing file makes fs.readFileSync throw
GetAdsSync(file, readFails) ==
  IF ~file.exists \/ readFails THEN <<>>
  ELSE LET parsed == JsonParse(OrEmptyList(file.text))
       IN  IF parsed.ok THEN parsed.val ELSE <<>>

\* getAds of part_002, once fs.ensureFile has run; readFails: fs.readFile rejects
GetAdsAsync(file, readFails) ==
  IF readFails THEN <<>>
  ELSE LET parsed == JsonParse(OrEmptyList(EnsureFile(file).text))
       IN  IF parsed.ok THEN parsed.val ELSE <<>>

\* the list a handler of revision r works on
GetAds(r, file, readFails) ==
  CASE r = "app" -> GetAdsApp(file, readFails)
    [] r = "sync" -> GetAdsSync(file, readFails)
    [] r = "async" -> GetAdsAsync(file, readFails)

\* whether getAds comes to read the file (app.js reads it only if it exists)
ReadAttempted(r, file) ==
  CASE r = "app" -> file.exists
    [] r = "mem" -> FALSE
    [] OTHER -> TRUE

\* the file once getAds has returned
AfterGetAds(r, file) == IF r = "async" THEN EnsureFile(file) ELSE file

\* saveAds; writeFails: fs.writeFileSync / fs.writeFile throws, which is logged
SaveAds(file, a, writeFails) ==
  IF writeFails THEN file ELSE FileOf(JsonStringify(a))

\* ------------------------------------------------------------- handlers
\* A handler's work on the list `a` that getAds returned: the list it ends
\* with, whether it calls saveAds, and its response.
Outcome(a, save, response) == [ads |-> a, save |-> save, resp |-> response]

\* newAd of app.js: { id, ...req.body, clicked: 0, videos: req.body.videos || [] }
NewAdApp(body, now) ==
  Spread(Spread([id |-> NumToString(now)], body),
         [clicked |-> 0,
          videos |-> IF "videos" \in DOMAIN body THEN body.videos ELSE <<>>])

\* newAd of part_000, part_001, part_002: { id, clicked: 0, videos: [], ...req.body }
NewAdMem(body, now) ==
  Spread([id |-> NumToString(now), clicked |-> 0, videos |-> <<>>], body)

NewAd(r, body, now) == IF r = "app" THEN NewAdApp(body, now) ELSE NewAdMem(body, now)

\* GET /api/ads
ListAds(a) == Outcome(a, FALSE, Response("get", 200, "list", a))

\* POST /api/ads
PostAd(r, a, body, now) ==
  LET newAd == NewAd(r, body, now)
  IN  Outcome(Push(a, newAd), TRUE, Response("post", 201, "ad", <<newAd>>))

\* PUT /api/ads/:id
PutAd(a, id, body) ==
  LET index == FindIndex(a, id)
  IN  IF index = -1 THEN Outcome(a, FALSE, NotFound("put"))
      ELSE LET updated == [a EXCEPT ![index + 1] = Spread(@, body)]
           IN  Outcome(updated, TRUE, Response("put", 200, "ad", <<updated[index + 1]>>))

\* DELETE /api/ads/:id
DeleteAd(a, id) ==
  LET kept == FilterOut(a, id)
  IN  IF Len(kept) = Len(a) THEN Outcome(kept, FALSE, NotFound("delete"))
      ELSE Outcome(kept, TRUE, Response("delete", 200, "message", <<>>))

\* ads[index].clicked = 1: the previous value forgotten
IncrementLost(ad) == Spread(ad, [clicked |-> 1])

\* ads[index].clicked = (ads[index].clicked || 0) + 1
Increment(ad) == Spread(ad, [clicked |-> OrZero(ad) + 1])

\* PATCH /api/ads/:id/click
ClickAd(a, id) ==
  LET index == FindIndex(a, id)
  IN  IF index = -1 THEN Outcome(a, FALSE, NotFound("click"))
      ELSE LET updated == [a EXCEPT ![index + 1] = Increment(@)]
           IN  Outcome(updated, TRUE, Response("click", 200, "ad", <<updated[index + 1]>>))

Request(op, id, body) == [op |-> op, id |-> id, body |-> body]

Handle(r, rq, a, now) ==
  CASE rq.op = "get" -> ListAds(a)
    [] rq.op = "post" -> PostAd(r, a, rq.body, now)
    [] rq.op = "put" -> PutAd(a, rq.id, rq.body)
    [] rq.op = "delete" -> DeleteAd(a, rq.id)
    [] rq.op = "click" -> ClickAd(a, rq.id)

\* ------------------------------------------------------------- sequential service
\* One request, served to completion by every revision (handlers of the
\* synchronous revisions are not interrupted; here the asynchronous one is
\* given no second request before the first has been answered).

\* what revision r holds: the list a GET would read when I/O does not fail
Stored(r) == IF r = "mem" THEN ads ELSE GetAds(r, adsJson[r], FALSE)

Reads(r, readFails) == IF r = "mem" THEN ads ELSE GetAds(r, adsJson[r], readFails)

\* the clicks acknowledged for each stored ad, after the request
HitsAfter(rq, a, out, h) ==
  CASE rq.op = "post" -> Append(h, 0)
    [] rq.op = "delete" /\ out.resp.status = 200 ->
         LET keep == SelectSeq([i \in 1..Len(a) |-> i], LAMBDA i : a[i].id # rq.id)
         IN  [k \in 1..Len(keep) |-> h[keep[k]]]
    [] rq.op = "click" /\ out.resp.status = 200 ->
         [h EXCEPT ![FindIndex(a, rq.id) + 1] = @ + 1]
    [] OTHER -> h

FaultChoices == IF io = "faulty" THEN BOOLEAN ELSE {FALSE}

\* What one revision has done once its handler, having read the list `a`
\* and come to the outcome `out`, has answered: its response, the file it
\* leaves (the list, for part_000) and the history.
RevAfter(r, rq, a, out, readFails, writeFails) ==
  [resp |-> out.resp,
   store |-> IF r = "mem" THEN out.ads
             ELSE IF out.save
             THEN SaveAds(AfterGetAds(r, adsJson[r]), out.ads, writeFails)
             ELSE AfterGetAds(r, adsJson[r]),
   hits |-> IF io = "faulty" THEN hits[r] ELSE HitsAfter(rq, a, out, hits[r]),
   failed |-> IF r = "mem" THEN FALSE
              ELSE \/ readFails /\ ReadAttempted(r, adsJson[r])
                   \/ writeFails /\ out.save]

\* the handler of revision r on the list `a` that getAds returned
RevHandled(r, rq, a, readFails, writeFails) ==
  RevAfter(r, rq, a, Handle(r, rq, a, clock), readFails, writeFails)

\* the handler of revision r, from its call of getAds to its response
RevResult(r, rq, readFails, writeFails) ==
  RevHandled(r, rq, Reads(r, readFails), readFails, writeFails)

\* the four revisions' results as one state
Together(rq, app, mem, sync, async) ==
  [ads |-> mem.store,
   adsJson |-> [app |-> app.store, sync |-> sync.store, async |-> async.store],
   resp |-> [app |-> app.resp, mem |-> mem.resp,
             sync |-> sync.resp, async |-> async.resp],
   hits |-> [app |-> app.hits, mem |-> mem.hits,
             sync |-> sync.hits, async |-> async.hits],
   failed |-> [app |-> app.failed, mem |-> mem.failed,
               sync |-> sync.failed, async |-> async.failed],
   gone |-> CASE io = "faulty" -> gone
              [] rq.op = "post" -> {}
              [] rq.op = "delete" /\ mem.resp.status = 200 -> gone \cup {rq.id}
              [] OTHER -> gone]

\* the state every revision is in once the request has been answered
Result(rq, readFails, writeFails) ==
  Together(rq,
           RevResult("app", rq, readFails, writeFails),
           RevResult("mem", rq, readFails, writeFails),
           RevResult("sync", rq, readFails, writeFails),
           RevResult("async", rq, readFails, writeFails))

Serve(rq, readFails, writeFails) ==
  /\ served < MaxRequests
  /\ served' = served + 1
  /\ \E result \in {Result(rq, readFails, writeFails)} :
       /\ ads' = result.ads
       /\ resp' = result.resp
       /\ adsJson' = result.adsJson
       /\ hits' = result.hits
       /\ gone' = result.gone
       /\ failed' = result.failed
  /\ UNCHANGED <<clock, io, pc, req, loc, hresp>>

\* Date.now() moves on
Tick ==
  /\ clock + 1 \in Millis
  /\ clock' = clock + 1
  /\ UNCHANGED <<served, adsJson, ads, resp, hits, gone, failed, io, pc, req, loc, hresp>>

List ==
  \E rf \in FaultChoices : Serve(Request("get", <<>>, NoBody), rf, FALSE)

Create ==
  /\ \A r \in Revs : Len(Stored(r)) < MaxAds
  /\ \E body \in Bodies : \E rf, wf \in FaultChoices :
       Serve(Request("post", <<>>, body), rf, wf)

Update ==
  \E id \in ParamIds : \E body \in Bodies : \E rf, wf \in FaultChoices :
    Serve(Request("put", id, body), rf, wf)

Remove ==
  \E id \in ParamIds : \E rf, wf \in FaultChoices :
    Serve(Request("delete", id, NoBody), rf, wf)

Click ==
  \E id \in ParamIds : \E rf, wf \in FaultChoices :
    Serve(Request("click", id, NoBody), rf, wf)

Handlers == 1..NumHandlers

InitCommon ==
  /\ served = 0
  /\ clock = 0
  /\ ads = <<>>
  /\ resp = [r \in Revs |-> NoResponse]
  /\ hits = [r \in Revs |-> <<>>]
  /\ gone = {}
  /\ failed = [r \in Revs |-> FALSE]
  /\ pc = [h \in Handlers |-> "idle"]
  /\ req = [h \in Handlers |-> Request("none", <<>>, NoBody)]
  /\ loc = [h \in Handlers |-> Outcome(<<>>, FALSE, NoResponse)]
  /\ hresp = [h \in Handlers |-> NoResponse]

\* a fresh deployment: app.js and part_002 find no ads.json, part_001 has
\* written "[]" into it while the module loaded
FreshFiles ==
  [r \in FileRevs |-> IF r = "sync" THEN FileOf(JsonStringify(<<>>)) ELSE NoFile]

Init ==
  /\ InitCommon
  /\ io = "reliable"
  /\ adsJson = FreshFiles

Next == Tick \/ List \/ Create \/ Update \/ Remove \/ Click

Spec == Init /\ [][Next]_vars

\* ------------------------------------------------------------- failing I/O
\* The same service when a read or a write of ads.json may throw.  The file
\* is the fresh one, or one whose text is no JSON.
InitIO ==
  /\ InitCommon
  /\ io = "faulty"
  /\ adsJson \in {FreshFiles, [r \in FileRevs |-> FileOf(GarbageText)]}

SpecIO == InitIO /\ [][Next]_vars

\* ------------------------------------------------------------- part_002, concurrently
\* Each handler serves one request.  It is suspended in `await getAds()`
\* ("read") and, when it saves, in `await saveAds(ads)` ("write"); between
\* two awaits it runs without interruption.
AsyncRequests ==
  {Request("get", <<>>, NoBody)}
    \cup {Request("post", <<>>, body) : body \in Bodies}
    \cup {Request("put", id, body) : id \in ParamIds, body \in Bodies}
    \cup {Request("delete", id, NoBody) : id \in ParamIds}
    \cup {Request("click", id, NoBody) : id \in ParamIds}

\* the list an earlier POST with an empty body left at time 0
Seed == <<NewAdMem(NoBody, 0)>>

InitAsync ==
  /\ InitCommon
  /\ io = "reliable"
  /\ \E file \in {NoFile, FileOf(JsonStringify(Seed))} :
       adsJson = [FreshFiles EXCEPT !["async"] = file]

\* the route is entered and calls getAds()
Arrive(h) ==
  /\ pc[h] = "idle"
  /\ \E rq \in AsyncRequests : req' = [req EXCEPT ![h] = rq]
  /\ pc' = [pc EXCEPT ![h] = "read"]
  /\ UNCHANGED <<served, clock, adsJson, ads, resp, hits, gone, failed, io, loc, hresp>>

\* getAds() returns; the handler runs up to `await saveAds(ads)`, or answers 404 / the list
ReadDone(h) ==
  /\ pc[h] = "read"
  /\ LET out == Handle("async", req[h], GetAdsAsync(adsJson["async"], FALSE), clock)
     IN  /\ adsJson' = [adsJson EXCEPT !["async"] = AfterGetAds("async", @)]
         /\ loc' = [loc EXCEPT ![h] = out]
         /\ IF out.save
            THEN /\ pc' = [pc EXCEPT ![h] = "write"]
                 /\ hresp' = hresp
            ELSE /\ pc' = [pc EXCEPT ![h] = "done"]
                 /\ hresp' = [hresp EXCEPT ![h] = out.resp]
  /\ UNCHANGED <<served, clock, ads, resp, hits, gone, failed, io, req>>

\* fs.writeFile has written the handler's list; the handler answers
WriteDone(h) ==
  /\ pc[h] = "write"
  /\ adsJson' = [adsJson EXCEPT !["async"] = SaveAds(@, loc[h].ads, FALSE)]
  /\ hresp' = [hresp EXCEPT ![h] = loc[h].resp]
  /\ pc' = [pc EXCEPT ![h] = "done"]
  /\ UNCHANGED <<served, clock, ads, resp, hits, gone, failed, io, req, loc>>

NextAsync ==
  \/ Tick
  \/ \E h \in Handlers : Arrive(h)
  \/ \E h \in Handlers : ReadDone(h)
  \/ \E h \in Handlers : WriteDone(h)

SpecAsync == InitAsync /\ [][NextAsync]_vars

\* ------------------------------------------------------------- claims
\* the state once the request has been served with no I/O failure
Served(rq) == Result(rq, FALSE, FALSE)

\* what revision r holds in the state `st`
StoredIn(st, r) == IF r = "mem" THEN st.ads ELSE GetAds(r, st.adsJson[r], FALSE)

HasId(a, id) == \E i \in 1..Len(a) : a[i].id = id

\* the position of the first ad of `a` with that id
FirstWithId(a, id) ==
  CHOOSE k \in 1..Len(a) : a[k].id = id /\ \A j \in 1..(k - 1) : a[j].id # id

\* C1: no handler starts its read of the ad list while another handler is
\* between its own read and its write.
OneHandlerAtATime ==
  [][\A h \in Handlers :
       (pc[h] = "idle" /\ pc'[h] = "read") =>
         \A g \in Handlers \ {h} : pc[g] # "write"]_vars

\* C2: a request in which a read or a write of the ads file threw is
\* answered 500.
FailureGives500 ==
  \A r \in FileRevs : failed[r] => resp[r].status = 500

\* C3: app.js and part_000 answer every request alike (same status, same
\* data) and hold the same list after it.
SameContract ==
  /\ resp["app"].status = resp["mem"].status
  /\ resp["app"].data = resp["mem"].data
  /\ Stored("app") = Stored("mem")

\* C4: each stored ad's clicked value is the number of click requests for it
\* that were answered 200 since it was created.
ClickedCountsClicks ==
  \A r \in Revs : \A i \in 1..Len(Stored(r)) : Stored(r)[i].clicked = hits[r][i]

\* C5: POST /api/ads answers 201 with the new ad and leaves the list as it
\* was with that ad added at the end; GET /api/ads answers the stored list.
CreateAppends ==
  /\ \A body \in Bodies :
       LET next == Served(Request("post", <<>>, body))
       IN  \A r \in Revs :
             LET before == Stored(r)
                 after == StoredIn(next, r)
             IN  /\ next.resp[r].status = 201
                 /\ next.resp[r].success
                 /\ Len(after) = Len(before) + 1
                 /\ \A i \in 1..Len(before) : after[i] = before[i]
                 /\ next.resp[r].data = <<after[Len(after)]>>
  /\ LET next == Served(Request("get", <<>>, NoBody))
     IN  \A r \in Revs :
           /\ next.resp[r].status = 200
           /\ next.resp[r].data = Stored(r)
           /\ StoredIn(next, r) = Stored(r)

\* C5 witness: a POST has been answered 201 and its ad stands behind an older one.
CreateAppendsWitness ==
  \A r \in Revs :
    /\ resp[r].op = "post"
    /\ resp[r].status = 201
    /\ Len(Stored(r)) = 2
    /\ <<Stored(r)[2]>> = resp[r].data
    /\ Stored(r)[1] # Stored(r)[2]

DeleteContract ==
  \A id \in ParamIds :
    LET next == Served(Request("delete", id, NoBody))
    IN  \A r \in Revs :
      LET before == Stored(r)
          after == StoredIn(next, r)
      IN  /\ IF HasId(before, id)
             THEN /\ next.resp[r].status = 200
                  /\ ~HasId(after, id)
                  /\ after = SelectSeq(before, LAMBDA ad : ad.id # id)
             ELSE /\ next.resp[r].status = 404
                  /\ after = before
          /\ id \in gone => next.resp[r].status = 404

UniqueIds ==
  \A r \in Revs : \A i, j \in 1..Len(Stored(r)) :
    i # j => Stored(r)[i].id # Stored(r)[j].id

\* the list part_002 has persisted
Persisted == GetAdsAsync(adsJson["async"], FALSE)

Answered(h, op, status) == req[h].op = op /\ hresp[h].status = status

\* C10: once every handler has finished, each ad whose POST was answered 201
\* is in the persisted list unless a DELETE was answered 200 (or a PUT, which
\* may have renamed it), and where only clicks were served the clicked ad's
\* counter has grown by the number of clicks answered 200.
NoLostWrite ==
  (\A h \in Handlers : pc[h] = "done") =>
    /\ (\A g \in Handlers : ~Answered(g, "delete", 200) /\ ~Answered(g, "put", 200)) =>
         \A h \in Handlers :
           Answered(h, "post", 201) => HasId(Persisted, hresp[h].data[1].id)
    /\ LET clicks == {h \in Handlers : Answered(h, "click", 200)}
       IN  (clicks # {} /\ \A h \in Handlers : req[h].op = "click") =>
             Persisted = <<[Seed[1] EXCEPT !.clicked = Cardinality(clicks)]>>

\* getAds of revision r takes its catch branch on this file: the read throws,
\* or the text it read is no JSON
NoJson(r, file) ==
  /\ file.exists
  /\ ~JsonParse(IF r = "app" THEN file.text ELSE OrEmptyList(file.text)).ok

Unreadable(r, file, readFails) ==
  (readFails /\ ReadAttempted(r, file)) \/ NoJson(r, file)

\* C11: when the ads file cannot be read or does not parse while POST
\* /api/ads runs, what the file held before the request is still there once
\* the handler has answered: a text that is no JSON is left as it was, and
\* every ad that was stored is still stored.
PostKeepsStoredAds ==
  (io = "faulty" /\ served < MaxRequests) =>
    \A body \in Bodies : \A rf \in FaultChoices :
      LET next == Result(Request("post", <<>>, body), rf, FALSE)
      IN  \A r \in FileRevs :
            Unreadable(r, adsJson[r], rf) =>
              /\ NoJson(r, adsJson[r]) => next.adsJson[r] = adsJson[r]
              /\ \A i \in 1..Len(Stored(r)) :
                   \E j \in 1..Len(StoredIn(next, r)) :
                     StoredIn(next, r)[j] = Stored(r)[i]

=============================================================================
